---- MODULE Spec2Model ----
(***************************************************************************)
(* Model of the lint rule unicorn/no-useless-length-check                  *)
(* (crates/oxc_linter/src/rules/unicorn/no_useless_length_check.rs).       *)
(*                                                                         *)
(* The rule is run once on every logical-expression node of a parsed       *)
(* expression.  It flattens the chain of same-operator operands and hands  *)
(* every adjacent pair to is_useless_check, which reports a diagnostic     *)
(* when one operand is `S.length <cmp> 0` and the other `S.every(..)` or   *)
(* `S.some(..)`.                                                           *)
(*                                                                         *)
(* Expressions are records tagged by "type", shaped like the AST the rule  *)
(* inspects.  An optional chain (`a?.b`, `a.b?.()`) is a ChainExpression   *)
(* node wrapping the member access or the call; parentheses are kept as    *)
(* ParenthesizedExpression nodes.                                          *)
(***************************************************************************)
EXTENDS Naturals, Sequences, FiniteSets

VARIABLES
    root,       \* the parsed input expression
    todo,       \* the logical-expression nodes of root the traversal has yet to visit
    node,       \* the node of the latest Rule::run invocation (None before the first)
    flat_expr,  \* flat_expr of the latest invocation (<<>> if it returned early)
    reported,   \* what the latest invocation handed to ctx.diagnostic
    diags,      \* everything handed to ctx.diagnostic so far, in order
    fwd,        \* outcome of is_useless_check(root.left, root.right, root.operator)
    rev         \* outcome of is_useless_check(root.right, root.left, root.operator)

vars == <<root, todo, node, flat_expr, reported, diags, fwd, rev>>

----------------------------------------------------------------------------
(* AST nodes *)

\* Option::None, for absent nodes and results
None == [type |-> "None"]

\* Option<Span>::None for the two span locals of is_useless_check; spans are 1, 2, ...
NoSpan == 0

Identifier(name, span) == [type |-> "Identifier", name |-> name, span |-> span]

NumericLiteral(raw) == [type |-> "NumericLiteral", raw |-> raw]

StringLiteral(raw) == [type |-> "StringLiteral", raw |-> raw]

\* kind is "Static" (a.b) or "Computed" (a[b]); property is the name written
StaticMember(object, property, optional) ==
    [type |-> "MemberExpression", kind |-> "Static", object |-> object,
     property |-> property, optional |-> optional]

ComputedMember(object, property, optional) ==
    [type |-> "MemberExpression", kind |-> "Computed", object |-> object,
     property |-> property, optional |-> optional]

CallExpression(callee, optional, span) ==
    [type |-> "CallExpression", callee |-> callee, optional |-> optional, span |-> span]

BinaryExpression(left, operator, right, span) ==
    [type |-> "BinaryExpression", left |-> left, operator |-> operator,
     right |-> right, span |-> span]

LogicalExpression(left, operator, right) ==
    [type |-> "LogicalExpression", left |-> left, operator |-> operator, right |-> right]

ChainExpression(expression) == [type |-> "ChainExpression", expression |-> expression]

ParenthesizedExpression(expression) ==
    [type |-> "ParenthesizedExpression", expression |-> expression]

----------------------------------------------------------------------------
(* AST helpers the rule calls *)

RECURSIVE without_parenthesized(_)
without_parenthesized(expr) ==
    IF expr.type = "ParenthesizedExpression"
    THEN without_parenthesized(expr.expression)
    ELSE expr

\* also strips TypeScript-only wrappers, which JavaScript input never has
get_inner_expression(expr) == without_parenthesized(expr)

get_identifier_reference(expr) ==
    LET inner == get_inner_expression(expr)
    IN  IF inner.type = "Identifier" THEN inner ELSE None

get_member_expr(expr) ==
    LET inner == get_inner_expression(expr)
    IN  IF inner.type = "MemberExpression" THEN inner ELSE None

get_static_member_property_name(expr) ==
    IF expr.type = "MemberExpression" /\ expr.kind = "Static"
    THEN expr.property
    ELSE ""

is_specific_member_access(member, object, property) ==
    /\ get_identifier_reference(member.object) # None
    /\ get_identifier_reference(member.object).name = object
    /\ member.kind = "Static"
    /\ member.property = property

is_raw(expr, raw) ==
    /\ expr.type \in {"NumericLiteral", "StringLiteral"}
    /\ expr.raw = raw

----------------------------------------------------------------------------
(* is_useless_check *)

every_condition == [property_name |-> "every", binary_operators |-> {"==="}]

some_condition == [property_name |-> "some", binary_operators |-> {"!==", ">"}]

active_condition_swapped(operator) ==
    IF operator = "||" THEN some_condition ELSE every_condition

active_condition(operator) ==
    IF operator = "||" THEN every_condition ELSE some_condition

match_scrutinee_through_chain(operand) ==
    LET expr == without_parenthesized(operand)
    IN  IF expr.type = "ChainExpression" THEN expr.expression ELSE expr

\* what the two `match` blocks dispatch on
match_scrutinee(operand) == without_parenthesized(operand)

left_binary_no_raw(expr, left_expr, array_name, active) ==
    /\ expr.operator \in active.binary_operators
    /\ is_specific_member_access(left_expr, array_name, "length")

\* value of the BinaryExpression arm of `l`
left_binary(expr, left_expr, array_name, active) ==
    /\ expr.operator \in active.binary_operators
    /\ is_specific_member_access(left_expr, array_name, "length")
    /\ is_raw(expr.right, "0")

\* value of the CallExpression arm of `l`
left_call(expr, property_name, active) ==
    LET is_same_method == property_name = active.property_name
        is_optional == expr.optional
    IN  is_same_method /\ ~is_optional

right_binary_any_operator(expr, left_expr, ident_name, array_name, active) ==
    /\ is_specific_member_access(left_expr, array_name, "length")
    /\ is_raw(expr.right, "0")
    /\ ident_name = array_name

\* value of the BinaryExpression arm of `r`
right_binary(expr, left_expr, ident_name, array_name, active) ==
    /\ expr.operator \in active.binary_operators
    /\ is_specific_member_access(left_expr, array_name, "length")
    /\ is_raw(expr.right, "0")
    /\ ident_name = array_name

right_call_any_name(expr, property_name, is_same_name, active) ==
    LET is_same_method == property_name = active.property_name
        is_optional == expr.optional
    IN  is_same_method /\ ~is_optional

\* value of the CallExpression arm of `r`
right_call(expr, property_name, is_same_name, active) ==
    LET is_same_method == property_name = active.property_name
        is_optional == expr.optional
    IN  is_same_method /\ ~is_optional /\ is_same_name

second_comparison_inverted(binary_expression_span) == binary_expression_span = NoSpan

second_comparison_accepted(binary_expression_span) == FALSE

\* `if binary_expression_span.is_some() { return None; }` of the right operand
second_comparison(binary_expression_span) == binary_expression_span # NoSpan

\* `if call_expression_span.is_some() { return None; }` of the right operand
second_call(call_expression_span) == call_expression_span # NoSpan

\* the locals after the `let l = match left...` block; returned: the block
\* left the function with None
LeftLocals(returned, l, array_name, binary_expression_span, call_expression_span) ==
    [returned |-> returned, l |-> l, array_name |-> array_name,
     binary_expression_span |-> binary_expression_span,
     call_expression_span |-> call_expression_span]

\* let l = match left.without_parenthesized() { ... }
LeftOperand(left, active) ==
    LET expr == match_scrutinee(left)
        Return == LeftLocals(TRUE, FALSE, "", NoSpan, NoSpan)
    IN  CASE expr.type = "BinaryExpression" ->
               LET left_expr == get_inner_expression(expr.left)
               IN  IF left_expr.type # "MemberExpression" THEN Return
                   ELSE IF get_identifier_reference(left_expr.object) = None THEN Return
                   ELSE LET array_name == get_identifier_reference(left_expr.object).name
                        IN  LeftLocals(FALSE, left_binary(expr, left_expr, array_name, active),
                                       array_name, expr.span, NoSpan)
          [] expr.type = "CallExpression" ->
               LET member == get_member_expr(expr.callee)
               IN  IF member = None THEN Return
                   ELSE IF get_identifier_reference(member.object) = None THEN Return
                   ELSE IF get_static_member_property_name(member) = "" THEN Return
                   ELSE LET array_name == get_identifier_reference(member.object).name
                            property_name == get_static_member_property_name(member)
                        IN  LeftLocals(FALSE, left_call(expr, property_name, active),
                                       array_name, NoSpan, expr.span)
          [] OTHER -> LeftLocals(FALSE, FALSE, "", NoSpan, NoSpan)

\* the locals after the `let r = match right...` block
RightLocals(returned, r, binary_expression_span) ==
    [returned |-> returned, r |-> r, binary_expression_span |-> binary_expression_span]

\* let r = match right.without_parenthesized() { ... }; ll: the locals so far
RightOperand(right, active, ll) ==
    LET expr == match_scrutinee(right)
        Return == RightLocals(TRUE, FALSE, ll.binary_expression_span)
    IN  CASE expr.type = "BinaryExpression" ->
               LET left_expr == get_inner_expression(expr.left)
               IN  IF left_expr.type # "MemberExpression" THEN Return
                   ELSE IF get_identifier_reference(left_expr.object) = None THEN Return
                   ELSE IF second_comparison(ll.binary_expression_span) THEN Return
                   ELSE LET ident_name == get_identifier_reference(left_expr.object).name
                        IN  RightLocals(FALSE,
                               right_binary(expr, left_expr, ident_name, ll.array_name, active),
                               expr.span)
          [] expr.type = "CallExpression" ->
               LET member == get_member_expr(expr.callee)
               IN  IF member = None THEN Return
                   ELSE IF get_identifier_reference(member.object) = None THEN Return
                   ELSE IF second_call(ll.call_expression_span) THEN Return
                   ELSE IF get_static_member_property_name(member) = "" THEN Return
                   ELSE LET is_same_name ==
                                get_identifier_reference(member.object).name = ll.array_name
                            property_name == get_static_member_property_name(member)
                        IN  RightLocals(FALSE,
                               right_call(expr, property_name, is_same_name, active),
                               ll.binary_expression_span)
          [] OTHER -> RightLocals(FALSE, FALSE, ll.binary_expression_span)

Diagnostic(kind, span) == [type |-> "Diagnostic", kind |-> kind, span |-> span]

labelled_span_of_call(binary_expression_span, call_expression_span) ==
    IF call_expression_span # NoSpan THEN call_expression_span ELSE binary_expression_span

\* the span the diagnostic is built from: `binary_expression_span?`
labelled_span(binary_expression_span, call_expression_span) == binary_expression_span

\* The whole function.  Beside the value it returns (result) the record keeps
\* what happened at `if l && r`: built is TRUE when that branch is entered,
\* i.e. a diagnostic is being built, and span is the Option<Span> it is built
\* from (NoSpan makes the `?` return None).
is_useless_check(left, right, operator) ==
    LET active == active_condition(operator)
        ll == LeftOperand(left, active)
        rl == RightOperand(right, active, ll)
        span == labelled_span(rl.binary_expression_span, ll.call_expression_span)
    IN  IF ll.returned \/ rl.returned \/ ~(ll.l /\ rl.r)
        THEN [result |-> None, built |-> FALSE, span |-> NoSpan]
        ELSE [result |-> IF span = NoSpan THEN None
                         ELSE Diagnostic(IF active.property_name = "every"
                                         THEN "Every" ELSE "Some", span),
              built |-> TRUE, span |-> span]

----------------------------------------------------------------------------
(* Rule::run and flat_logical_expression *)

RECURSIVE flat_logical_expression_any_operator(_)
flat_logical_expression_any_operator(n) ==
    LET side(operand) ==
            LET le == without_parenthesized(operand)
            IN  IF le.type = "LogicalExpression"
                THEN flat_logical_expression_any_operator(le)
                ELSE <<operand>>
    IN  side(n.left) \o side(n.right)

RECURSIVE flat_logical_expression(_)
flat_logical_expression(n) ==
    LET side(operand) ==
            LET le == without_parenthesized(operand)
            IN  IF le.type = "LogicalExpression" /\ le.operator = n.operator
                THEN flat_logical_expression(le)
                ELSE <<operand>>
    IN  side(n.left) \o side(n.right)

\* the diagnostics of pairs i, i+1, ... of the loop `for i in 0..flat_expr.len() - 1`
\* (indices are 1-based here)
RECURSIVE scan_pairs(_, _, _)
scan_pairs(flat, operator, i) ==
    IF i >= Len(flat) THEN <<>>
    ELSE LET diag == is_useless_check(flat[i], flat[i + 1], operator).result
         IN  (IF diag # None THEN <<diag>> ELSE <<>>) \o scan_pairs(flat, operator, i + 1)

\* Rule::run on one node: what it flattens and what it hands to ctx.diagnostic
run(n) ==
    IF n.type # "LogicalExpression" \/ n.operator \notin {"&&", "||"}
    THEN [flat_expr |-> <<>>, reported |-> <<>>]
    ELSE LET flat == flat_logical_expression(n)
         IN  [flat_expr |-> flat, reported |-> scan_pairs(flat, n.operator, 1)]

\* the traversal: every logical-expression node of an expression, a node
\* before the nodes inside it, the left operand's before the right operand's
RECURSIVE LogicalNodes(_)
LogicalNodes(expr) ==
    LET e == without_parenthesized(expr)
    IN  IF e.type = "LogicalExpression"
        THEN <<e>> \o LogicalNodes(e.left) \o LogicalNodes(e.right)
        ELSE <<>>

----------------------------------------------------------------------------
(* Inputs: operands of a two-operand logical expression *)

LogicalOperators == {"&&", "||", "??"}

Comparators == {"===", "!==", ">", "==", "!=", ">=", "<", "<="}

AcceptedComparators == {"===", "!==", ">"}

Methods == {"every", "some", "notSome"}

Names == {"array", "array2"}

\* right-hand sides: 0, 1, "0", 0., 0x0
Literals ==
    {NumericLiteral("0"), NumericLiteral("1"), StringLiteral("\"0\""),
     NumericLiteral("0."), NumericLiteral("0x0")}

Length(name, span) == StaticMember(Identifier(name, span), "length", FALSE)

\* `S.length <cmp> <literal>` and its near misses, at span
Comparisons(span) ==
    \* array.length <cmp> <literal>
    {BinaryExpression(Length("array", span), cmp, lit, span) :
        cmp \in Comparators, lit \in Literals}
    \cup \* array2.length <cmp> 0
    {BinaryExpression(Length("array2", span), cmp, NumericLiteral("0"), span) :
        cmp \in AcceptedComparators}
    \cup \* array.notLength, array[length], array?.length, (array?.length), foo().length
    {BinaryExpression(lhs, cmp, NumericLiteral("0"), span) :
        cmp \in AcceptedComparators,
        lhs \in {StaticMember(Identifier("array", span), "notLength", FALSE),
                 ComputedMember(Identifier("array", span), "length", FALSE),
                 ChainExpression(StaticMember(Identifier("array", span), "length", TRUE)),
                 ParenthesizedExpression(
                    ChainExpression(StaticMember(Identifier("array", span), "length", TRUE))),
                 StaticMember(CallExpression(Identifier("foo", span), FALSE, span),
                              "length", FALSE)}}
    \cup \* 0 <cmp> array.length
    {BinaryExpression(NumericLiteral("0"), cmp, Length("array", span), span) :
        cmp \in AcceptedComparators \cup {"<"}}

\* `S.<m>(...)` and its near misses, at span
Calls(span) ==
    \* S.m(f)
    {CallExpression(StaticMember(Identifier(name, span), m, FALSE), FALSE, span) :
        name \in Names, m \in Methods}
    \cup \* array[m](f), array?.m(f), array.m?.(f), (array?.m)(f), m(f), foo().m(f), array.m
    UNION {
      {CallExpression(ComputedMember(Identifier("array", span), m, FALSE), FALSE, span),
       ChainExpression(
          CallExpression(StaticMember(Identifier("array", span), m, TRUE), FALSE, span)),
       ChainExpression(
          CallExpression(StaticMember(Identifier("array", span), m, FALSE), TRUE, span)),
       CallExpression(
          ParenthesizedExpression(
             ChainExpression(StaticMember(Identifier("array", span), m, TRUE))),
          FALSE, span),
       CallExpression(Identifier(m, span), FALSE, span),
       CallExpression(
          StaticMember(CallExpression(Identifier("foo", span), FALSE, span), m, FALSE),
          FALSE, span),
       StaticMember(Identifier("array", span), m, FALSE)} : m \in {"every", "some"}}

RECURSIVE Parens(_, _)
Parens(expr, k) ==
    IF k = 0 THEN expr ELSE ParenthesizedExpression(Parens(expr, k - 1))

\* the deepest nesting of parentheses around an operand
MaxParens == 1

\* a well-formed comparison or call inside 1..MaxParens pairs of parentheses
Parenthesized(span) ==
    {Parens(BinaryExpression(Length("array", span), cmp, NumericLiteral("0"), span), k) :
        cmp \in AcceptedComparators, k \in 1..MaxParens}
    \cup
    {Parens(CallExpression(StaticMember(Identifier("array", span), m, FALSE), FALSE, span), k) :
        m \in {"every", "some"}, k \in 1..MaxParens}

Operands(span) ==
    Comparisons(span) \cup Calls(span) \cup Parenthesized(span)
        \cup {Identifier("foo", span)}

TwoOperandInputs ==
    {LogicalExpression(l, op, r) :
        l \in Operands(1), op \in LogicalOperators, r \in Operands(2)}

----------------------------------------------------------------------------
(* The rule on a two-operand logical expression, and is_useless_check on  *)
(* its operands in both orders                                            *)

\* fwd and rev before is_useless_check has been applied
Pending == [result |-> None, built |-> FALSE, span |-> NoSpan, applied |-> FALSE]

Applied(outcome) ==
    [result |-> outcome.result, built |-> outcome.built, span |-> outcome.span,
     applied |-> TRUE]

PairInit ==
    /\ root \in TwoOperandInputs
    /\ todo = LogicalNodes(root)
    /\ node = None
    /\ flat_expr = <<>>
    /\ reported = <<>>
    /\ diags = <<>>
    /\ fwd = Pending
    /\ rev = Pending

\* is_useless_check(left, right, operator)
CheckPair ==
    /\ ~fwd.applied
    /\ fwd' = Applied(is_useless_check(root.left, root.right, root.operator))
    /\ UNCHANGED <<root, todo, node, flat_expr, reported, diags, rev>>

\* is_useless_check(right, left, operator)
CheckSwapped ==
    /\ fwd.applied
    /\ ~rev.applied
    /\ rev' = Applied(is_useless_check(root.right, root.left, root.operator))
    /\ UNCHANGED <<root, todo, node, flat_expr, reported, diags, fwd>>

\* the traversal invokes Rule::run on the next node
Visit ==
    /\ todo # <<>>
    /\ todo' = Tail(todo)
    /\ node' = Head(todo)
    /\ flat_expr' = run(Head(todo)).flat_expr
    /\ reported' = run(Head(todo)).reported
    /\ diags' = diags \o run(Head(todo)).reported
    /\ UNCHANGED <<root, fwd, rev>>

PairVisit == rev.applied /\ Visit

PairNext == CheckPair \/ CheckSwapped \/ PairVisit

SpecPair == PairInit /\ [][PairNext]_vars

----------------------------------------------------------------------------
(* The rule on every logical-expression node of a nested input *)

\* the most operands an input expression has
MaxLeaves == 3

\* array.length === 0, array.length > 0, array.every(f), array.some(f), foo
Leaves(span) ==
    {BinaryExpression(Length("array", span), "===", NumericLiteral("0"), span),
     BinaryExpression(Length("array", span), ">", NumericLiteral("0"), span),
     CallExpression(StaticMember(Identifier("array", span), "every", FALSE), FALSE, span),
     CallExpression(StaticMember(Identifier("array", span), "some", FALSE), FALSE, span),
     Identifier("foo", span)}

\* a logical expression written as the operand of another one must be in
\* parentheses when it is the right operand with the same operator, when it
\* is `||` under `&&`, and when `??` meets `&&` or `||`
NeedsParens(operator, side, inner) ==
    \/ side = "right" /\ inner = operator
    \/ operator = "&&" /\ inner = "||"
    \/ operator = "??" /\ inner # "??"
    \/ operator # "??" /\ inner = "??"

\* the ways an operand can be written under operator, on side
Written(operator, side, expr) ==
    IF expr.type # "LogicalExpression" THEN {expr}
    ELSE IF NeedsParens(operator, side, expr.operator)
    THEN {ParenthesizedExpression(expr)}
    ELSE {expr, ParenthesizedExpression(expr)}

\* the expressions with exactly n operands, whose spans are first, first+1, ...
RECURSIVE Expressions(_, _)
Expressions(n, first) ==
    IF n = 1 THEN Leaves(first)
    ELSE UNION {
           UNION {
             UNION {
               {LogicalExpression(wl, op, wr) :
                   wl \in Written(op, "left", l), wr \in Written(op, "right", r)} :
               l \in Expressions(k, first), r \in Expressions(n - k, first + k)} :
             op \in LogicalOperators} :
           k \in 1..(n - 1)}

\* root is a logical expression with 2..MaxLeaves operands
IsInput(expr) ==
    \E n \in 2..MaxLeaves, op \in LogicalOperators :
      \E k \in 1..(n - 1) :
        \E l \in Expressions(k, 1), r \in Expressions(n - k, 1 + k) :
          \E wl \in Written(op, "left", l), wr \in Written(op, "right", r) :
            expr = LogicalExpression(wl, op, wr)

Init ==
    /\ IsInput(root)
    /\ todo = LogicalNodes(root)
    /\ node = None
    /\ flat_expr = <<>>
    /\ reported = <<>>
    /\ diags = <<>>
    /\ fwd = Pending
    /\ rev = Pending

Next == Visit

Spec == Init /\ [][Next]_vars

----------------------------------------------------------------------------
(* Vocabulary of the properties *)

\* an operand with its parentheses removed
Bare(operand) == without_parenthesized(operand)

IsComparison(operand) == Bare(operand).type = "BinaryExpression"

IsCall(operand) == Bare(operand).type = "CallExpression"

\* the identifier a comparison's left-hand member access is on ("" if none)
ComparisonSubject(operand) ==
    LET lhs == Bare(Bare(operand).left)
    IN  IF lhs.type = "MemberExpression" /\ Bare(lhs.object).type = "Identifier"
        THEN Bare(lhs.object).name ELSE ""

\* the identifier a call's callee member access is on ("" if none)
CallSubject(operand) ==
    LET callee == Bare(Bare(operand).callee)
    IN  IF callee.type = "MemberExpression" /\ Bare(callee.object).type = "Identifier"
        THEN Bare(callee.object).name ELSE ""

\* `S.length <cmp> 0`, written exactly so
PlainComparison(operand, S, cmp) ==
    /\ IsComparison(operand)
    /\ Bare(operand) =
          BinaryExpression(Length(S, Bare(operand).span), cmp, NumericLiteral("0"),
                           Bare(operand).span)

\* `S.m(...)`, written exactly so
PlainCall(operand, S, m) ==
    /\ IsCall(operand)
    /\ Bare(operand) =
          CallExpression(StaticMember(Identifier(S, Bare(operand).span), m, FALSE), FALSE,
                         Bare(operand).span)

\* the combination table of the rule
Table(op, m, cmp) ==
    \/ op = "||" /\ m = "every" /\ cmp = "==="
    \/ op = "&&" /\ m = "some" /\ cmp \in {"!==", ">"}

TableKind(op) == IF op = "||" THEN "Every" ELSE "Some"

\* both applications of is_useless_check are done
BothApplied == fwd.applied /\ rev.applied

\* the traversal has run the rule on every node
Traversed == todo = <<>> /\ node # None

\* no diagnostic from either order of the pair, nor from the rule
NothingReported ==
    /\ fwd.applied => fwd.result = None
    /\ rev.applied => rev.result = None
    /\ diags = <<>>

----------------------------------------------------------------------------
(* C1 *)

\* C1: for `S.length <cmp> 0 <op> S.<m>(...)` the rule reports exactly one
\* diagnostic, of kind Every for (||, every, ===) and Some for (&&, some,
\* !== or >), anchored at the comparison, and reports nothing for every other
\* combination of op in {&&, ||, ??}, method and comparator.
C1_CombinationTable ==
    \A S \in Names, cmp \in Comparators, m \in Methods :
        (/\ Traversed
         /\ root.left = BinaryExpression(Length(S, 1), cmp, NumericLiteral("0"), 1)
         /\ root.right =
              CallExpression(StaticMember(Identifier(S, 2), m, FALSE), FALSE, 2))
        => diags = IF Table(root.operator, m, cmp)
                   THEN <<Diagnostic(TableKind(root.operator), 1)>>
                   ELSE <<>>

C1_Witness ==
    /\ Traversed
    /\ root.operator = "&&"
    /\ root.left = BinaryExpression(Length("array", 1), ">", NumericLiteral("0"), 1)
    /\ root.right =
         CallExpression(StaticMember(Identifier("array", 2), "some", FALSE), FALSE, 2)
    /\ diags = <<Diagnostic("Some", 1)>>

----------------------------------------------------------------------------
(* C2 *)

\* C2: for operands A, B and op in {&&, ||}, is_useless_check(A, B, op) and
\* is_useless_check(B, A, op) return the same thing: both nothing, or
\* diagnostics of the same kind and span; `array.every(f) || array.length === 0`,
\* `array.some(f) && array.length !== 0` and `array.some(f) && array.length > 0`
\* each produce a diagnostic.
C2_OrderIndependent ==
    (BothApplied /\ root.operator \in {"&&", "||"}) =>
        /\ fwd.result = rev.result
        /\ \A cmp \in AcceptedComparators, m \in {"every", "some"} :
              (/\ PlainCall(root.left, "array", m)
               /\ PlainComparison(root.right, "array", cmp)
               /\ Table(root.operator, m, cmp))
              => fwd.result = Diagnostic(TableKind(root.operator), Bare(root.right).span)

C2_Witness ==
    /\ BothApplied
    /\ root.operator = "||"
    /\ PlainCall(root.left, "array", "every")
    /\ PlainComparison(root.right, "array", "===")
    /\ fwd.result = Diagnostic("Every", 2)
    /\ rev.result = Diagnostic("Every", 2)

----------------------------------------------------------------------------
(* C3 *)

\* the pair is a comparison and a call, in either order, on different identifiers
DifferentSubjects ==
    \E c \in {root.left, root.right}, q \in {root.left, root.right} :
        /\ IsComparison(c)
        /\ IsCall(q)
        /\ ComparisonSubject(c) # ""
        /\ CallSubject(q) # ""
        /\ ComparisonSubject(c) # CallSubject(q)

\* C3: a pair whose comparison and quantifier call are on different
\* identifiers produces no diagnostic, in either operand order, whatever the
\* operator, comparator, method and literal are.
C3_SubjectIdentity == DifferentSubjects => NothingReported

C3_Witness ==
    /\ BothApplied
    /\ Traversed
    /\ DifferentSubjects
    /\ root.operator = "||"
    /\ PlainComparison(root.left, "array", "===")
    /\ PlainCall(root.right, "array2", "every")

----------------------------------------------------------------------------
(* C4 *)

\* `S.m?.(f)` or `S?.m(f)`: the call is inside an optional chain
OptionalCall(operand) ==
    /\ Bare(operand).type = "ChainExpression"
    /\ Bare(operand).expression.type = "CallExpression"

\* `(S?.m)(f)`: the callee is an optional member access
OptionalCallee(operand) ==
    /\ IsCall(operand)
    /\ Bare(Bare(operand).callee).type = "ChainExpression"

\* `S?.length <cmp> 0`
OptionalLength(operand) ==
    /\ IsComparison(operand)
    /\ Bare(Bare(operand).left).type = "ChainExpression"

OptionalOperand(operand) ==
    OptionalCall(operand) \/ OptionalCallee(operand) \/ OptionalLength(operand)

\* C4: a pair in which the quantifier call is an optional call or goes
\* through optional access to the method, or in which the length access is
\* optional, produces no diagnostic, whichever side that operand is on and
\* whatever the other operand is.
C4_OptionalChainingImmunity ==
    (OptionalOperand(root.left) \/ OptionalOperand(root.right)) => NothingReported

C4_Witness ==
    /\ BothApplied
    /\ Traversed
    /\ root.operator = "||"
    /\ PlainComparison(root.left, "array", "===")
    /\ OptionalCall(root.right)
    /\ Bare(root.right).expression.callee =
          StaticMember(Identifier("array", 2), "every", TRUE)

----------------------------------------------------------------------------
(* C5 *)

\* a comparison whose right-hand side is not the literal written `0`
\* (this covers `0 === array.length`, whose right-hand side is the access)
InexactZero(operand) ==
    /\ IsComparison(operand)
    /\ Bare(operand).right # NumericLiteral("0")

\* C5: a comparison whose right-hand side is not written exactly `0`, or
\* whose zero is on the left, never contributes to a diagnostic, in either
\* operand position and under either operator.
C5_LiteralExactness ==
    (InexactZero(root.left) \/ InexactZero(root.right)) => NothingReported

C5_Witness ==
    /\ BothApplied
    /\ Traversed
    /\ root.operator = "||"
    /\ Bare(root.left) =
          BinaryExpression(Length("array", 1), "===", NumericLiteral("0x0"), 1)
    /\ PlainCall(root.right, "array", "every")

----------------------------------------------------------------------------
(* C6 *)

\* span is the span of the comparison of the pair, and of no call in it
AnchoredAtComparison(span) ==
    /\ span # NoSpan
    /\ \E c \in {root.left, root.right} : IsComparison(c) /\ Bare(c).span = span
    /\ \A q \in {root.left, root.right} : IsCall(q) => Bare(q).span # span

\* C6: whenever is_useless_check builds a diagnostic, a comparison span has
\* been recorded, and every diagnostic returned or reported carries the span
\* of the pair's comparison operand, never the call's, on whichever side the
\* comparison is.
C6_SpanAnchoring ==
    /\ \A o \in {fwd, rev} :
          o.built => /\ o.result # None
                     /\ AnchoredAtComparison(o.span)
                     /\ o.result.span = o.span
    /\ \A i \in 1..Len(diags) : AnchoredAtComparison(diags[i].span)

C6_Witness ==
    /\ BothApplied
    /\ Traversed
    /\ IsCall(root.left)
    /\ IsComparison(root.right)
    /\ fwd.built
    /\ fwd.result.span = 2
    /\ diags = <<fwd.result>>

----------------------------------------------------------------------------
(* C8 *)

\* C8 as claimed: a call of is_useless_check with (quantifier call,
\* comparison) as (left, right) returns no diagnostic.
C8_FixedOrderOnly ==
    (fwd.applied /\ IsCall(root.left) /\ IsComparison(root.right))
        => fwd.result = None

\* C8 as amended: one call of is_useless_check classifies each operand as
\* comparison or call on whichever side it is; with (quantifier call,
\* comparison) as (left, right) that satisfy the active rule it returns the
\* diagnostic, anchored at the right operand.
C8_ReverseOrderMatches ==
    \A S \in Names, cmp \in Comparators, m \in Methods :
        (/\ fwd.applied
         /\ root.operator \in {"&&", "||"}
         /\ PlainCall(root.left, S, m)
         /\ PlainComparison(root.right, S, cmp))
        => fwd.result = IF Table(root.operator, m, cmp)
                        THEN Diagnostic(TableKind(root.operator), Bare(root.right).span)
                        ELSE None

C8_Witness ==
    /\ fwd.applied
    /\ root.operator = "&&"
    /\ PlainCall(root.left, "array", "some")
    /\ PlainComparison(root.right, "array", "!==")
    /\ fwd.result = Diagnostic("Some", 2)

----------------------------------------------------------------------------
(* C10 *)

\* not one comparison and one call
NotOneOfEach ==
    \/ IsComparison(root.left) /\ IsComparison(root.right)
    \/ IsCall(root.left) /\ IsCall(root.right)
    \/ ~(IsComparison(root.left) \/ IsCall(root.left))
    \/ ~(IsComparison(root.right) \/ IsCall(root.right))

\* C10: a pair of two comparisons, of two calls, or with an operand that is
\* neither a binary comparison nor a call, never produces a diagnostic.
C10_OneOfEach == NotOneOfEach => NothingReported

C10_Witness ==
    /\ BothApplied
    /\ Traversed
    /\ root.operator = "||"
    /\ PlainComparison(root.left, "array", "===")
    /\ PlainComparison(root.right, "array", "===")

----------------------------------------------------------------------------
(* C7 *)

\* every logical-expression node of expr has the operator
RECURSIVE OneChain(_, _)
OneChain(expr, operator) ==
    LET e == Bare(expr)
    IN  e.type = "LogicalExpression" =>
            /\ e.operator = operator
            /\ OneChain(e.left, operator)
            /\ OneChain(e.right, operator)

\* the adjacent pairs of the flattened chain of n that match
MatchingPairs(n) ==
    LET flat == flat_logical_expression(n)
    IN  {i \in 1..(Len(flat) - 1) :
            is_useless_check(flat[i], flat[i + 1], n.operator).result # None}

\* array.every(f) || array.length === 0 || array.every(f)
EveryLengthEvery ==
    LogicalExpression(
        LogicalExpression(
            CallExpression(StaticMember(Identifier("array", 1), "every", FALSE), FALSE, 1),
            "||",
            BinaryExpression(Length("array", 2), "===", NumericLiteral("0"), 2)),
        "||",
        CallExpression(StaticMember(Identifier("array", 3), "every", FALSE), FALSE, 3))

\* C7: once the rule has run on every logical-expression node of an input
\* that is one `&&` or `||` chain, the number of diagnostics reported equals
\* the number of matching adjacent pairs of the flattened chain of the
\* outermost node; `array.every(f) || array.length === 0 || array.every(f)`
\* yields exactly two.
C7_OnePerMatchingPair ==
    (Traversed /\ root.operator \in {"&&", "||"} /\ OneChain(root, root.operator)) =>
        /\ Len(diags) = Cardinality(MatchingPairs(root))
        /\ root = EveryLengthEvery => Len(diags) = 2

----------------------------------------------------------------------------
(* C9 *)

\* where an operand lies under a node: the sides taken from the node down
Paths == UNION {[1..k -> {"left", "right"}] : k \in 1..(MaxLeaves - 1)}

SameOperator(expr, operator) ==
    Bare(expr).type = "LogicalExpression" /\ Bare(expr).operator = operator

Side(expr, side) == IF side = "left" THEN Bare(expr).left ELSE Bare(expr).right

\* path leads from expr down through logical expressions with the operator only
RECURSIVE Descends(_, _, _)
Descends(expr, path, operator) ==
    path # <<>> =>
        /\ SameOperator(expr, operator)
        /\ Descends(Side(expr, Head(path)), Tail(path), operator)

RECURSIVE At(_, _)
At(expr, path) ==
    IF path = <<>> THEN expr ELSE At(Side(expr, Head(path)), Tail(path))

\* the operands of the chain of n: reached through same-operator logical
\* expressions only, and not such an expression themselves
ChainPositions(n) ==
    {p \in Paths : /\ Descends(n, p, n.operator)
                   /\ ~SameOperator(At(n, p), n.operator)}

\* p is to the left of q in the source
LeftOf(p, q) ==
    \E j \in 1..Len(p) :
        /\ j <= Len(q)
        /\ p[j] = "left"
        /\ q[j] = "right"
        /\ \A i \in 1..(j - 1) : p[i] = q[i]

\* among the positions chain: 1 for the leftmost, 2 for the next, ...
Rank(chain, p) == 1 + Cardinality({q \in chain : LeftOf(q, p)})

\* array.length === 0 || (array.every(f) && foo)
LengthOrEveryAndFoo ==
    LogicalExpression(
        BinaryExpression(Length("array", 1), "===", NumericLiteral("0"), 1),
        "||",
        ParenthesizedExpression(
            LogicalExpression(
                CallExpression(StaticMember(Identifier("array", 2), "every", FALSE),
                               FALSE, 2),
                "&&",
                Identifier("foo", 3))))

\* C9: for a logical-expression node with operator O the flattener returns,
\* left to right, exactly the operands reached by descending (through
\* parentheses) into logical expressions with operator O only; an operand
\* with another operator, or that is no logical expression, is one element.
\* The result has at least two elements, every diagnostic of the node is for
\* two neighbouring elements of it, and
\* `array.length === 0 || (array.every(f) && foo)` reports nothing.
C9_Flattening ==
    /\ node # None =>
        LET flat == IF node.operator \in {"&&", "||"} THEN flat_expr
                    ELSE flat_logical_expression(node)
            chain == ChainPositions(node)
        IN  /\ Len(flat) = Cardinality(chain)
            /\ Len(flat) >= 2
            /\ \A p \in chain : flat[Rank(chain, p)] = At(node, p)
            /\ \A i \in 1..Len(reported) :
                  \E p \in chain, q \in chain :
                      /\ (\/ Rank(chain, p) = Rank(chain, q) + 1
                          \/ Rank(chain, q) = Rank(chain, p) + 1)
                      /\ IsComparison(At(node, p))
                      /\ Bare(At(node, p)).span = reported[i].span
                      /\ IsCall(At(node, q))
    /\ (Traversed /\ root = LengthOrEveryAndFoo) => diags = <<>>

C9_Witness ==
    /\ root = LengthOrEveryAndFoo
    /\ node = root
    /\ flat_expr = <<root.left, root.right>>
    /\ reported = <<>>

====
